---- MODULE Spec2Model ----
(***************************************************************************)
(* A model of the Teal front end (lexer, statement-terminator normalizer   *)
(* post_lex, parser) and of the machine Instruction class.                 *)
(*                                                                         *)
(* Source text is a sequence of one-character strings.  Python offsets are *)
(* 0-based; a sequence position p of the model is the Python offset p - 1. *)
(***************************************************************************)
EXTENDS Integers, Sequences, FiniteSets, TLC

VARIABLES
    source_text,   \* the text handed to the lexer (tl_parse's `text`)
    lexer,         \* TealLexer.tokenize: [index, lineno, toks, pc]
    gen,           \* the post_lex generator: its locals and what it has yielded
    result,        \* what tl_parse returned or raised
    slot,          \* machine: the Instruction objects built so far
    outcome        \* machine: what the last operation returned or raised

vars == <<source_text, lexer, gen, result, slot, outcome>>

None == [type |-> "None"]

(***************************************************************************)
(* Bounds.                                                                 *)
(***************************************************************************)
MaxLen == 4        \* characters of a source text fed to lexer + post_lex
MaxChunks == 3     \* lexemes of a source text fed to tl_parse
MaxElif == 2       \* elif branches of a generated conditional
MaxOperands == 2   \* operands handed to an Instruction constructor

(***************************************************************************)
(* Text helpers (Python str methods).                                      *)
(***************************************************************************)
NLc == "\n"

RECURSIVE Concat(_)
Concat(ss) == IF ss = << >> THEN << >> ELSE Head(ss) \o Concat(Tail(ss))

\* text[a-1 : b-1] of Python: positions a .. b-1
Slice(text, a, b) == IF b <= a THEN << >> ELSE SubSeq(text, a, b - 1)

\* str.count("\n")
CountNL(s) == Cardinality({k \in 1..Len(s) : s[k] = NLc})

\* first position >= i whose character is c, or 0
FindFrom(text, i, c) ==
    LET hits == {k \in i..Len(text) : text[k] = c}
    IN  IF hits = {} THEN 0 ELSE CHOOSE k \in hits : \A m \in hits : k <= m

\* first position >= i whose character is not in S, or Len(text) + 1
RunEnd(text, i, S) ==
    LET stops == {k \in i..Len(text) : text[k] \notin S}
    IN  IF stops = {} THEN Len(text) + 1
        ELSE CHOOSE k \in stops : \A m \in stops : k <= m

\* position of the first newline at or after i, or Len(text) + 1
LineEnd(text, i) ==
    LET nl == FindFrom(text, i, NLc) IN IF nl = 0 THEN Len(text) + 1 ELSE nl

Min(a, b) == IF a < b THEN a ELSE b

At(text, p) == IF p >= 1 /\ p <= Len(text) THEN text[p] ELSE "EOF"

(***************************************************************************)
(* TealLexer.  Each Match operator gives the position just past the match  *)
(* of its rule at position p, or 0 when the rule does not match there.     *)
(* The rules whose first character is outside the model's alphabet         *)
(* (SYMBOL, NUMBER, ADD, SUB, EQ, SET, AND, GT, LT, OR) are left out.      *)
(***************************************************************************)
Letters == {"a", "e", "f", "i", "l", "s"}
ignore == {" ", "\t"}
literals == {"(", ")", ",", "{", "}", "[", "]", ":"}

\* @_(r"#\[.*\]\n")
MatchATTRIBUTE(text, p) ==
    IF At(text, p) = "#" /\ At(text, p + 1) = "["
    THEN LET nl == FindFrom(text, p + 2, NLc)
         IN  IF nl > p + 2 /\ text[nl - 1] = "]" THEN nl + 1 ELSE 0
    ELSE 0

\* @_(r"(/\*(.|\n)*?\*/)|(//.*)")
MatchCOMMENT(text, p) ==
    LET closers == {k \in (p + 2)..(Len(text) - 1) :
                        text[k] = "*" /\ text[k + 1] = "/"}
    IN  IF At(text, p) = "/" /\ At(text, p + 1) = "*" /\ closers # {}
        THEN (CHOOSE k \in closers : \A m \in closers : k <= m) + 2
        ELSE IF At(text, p) = "/" /\ At(text, p + 1) = "/"
        THEN LineEnd(text, p + 2)
        ELSE 0

\* @_(r"\n+")
MatchNL(text, p) == IF At(text, p) = NLc THEN RunEnd(text, p, {NLc}) ELSE 0

\* ID = "[a-z_][a-zA-Z0-9_?.]*"
MatchID(text, p) ==
    IF At(text, p) \in Letters THEN RunEnd(text, p, Letters) ELSE 0

\* STRING = r'"[^\"]+"'
MatchSTRING(text, p) ==
    IF At(text, p) = "\""
    THEN LET q == FindFrom(text, p + 1, "\"")
         IN  IF q > p + 1 THEN q + 1 ELSE 0
    ELSE 0

\* TERM = r";+"
MatchTERM(text, p) == IF At(text, p) = ";" THEN RunEnd(text, p, {";"}) ELSE 0

\* ID["fn"] = FN ... ID["null"] = NULL
Keyword(value) ==
    CASE value = <<"i", "f">> -> "IF"
      [] value = <<"e", "l", "i", "f">> -> "ELIF"
      [] value = <<"e", "l", "s", "e">> -> "ELSE"
      [] value = <<"f", "a", "l", "s", "e">> -> "FALSE"
      [] OTHER -> "ID"

\* a sly Token; obj tells the Token objects of a run apart
Token(type, value, lineno, p) ==
    [type |-> type, value |-> value, lineno |-> lineno, index |-> p - 1,
     obj |-> "lexed"]

Step(kind, tok, index, lineno) ==
    [kind |-> kind, tok |-> tok, index |-> index, lineno |-> lineno]

\* One next() of Lexer.tokenize at position p with line counter lineno: the
\* token it yields ("tok"), the error it raises ("error") or the end ("eof").
RECURSIVE LexNext(_, _, _)
LexNext(text, p, lineno) ==
    IF p > Len(text) THEN Step("eof", None, p, lineno)
    ELSE IF text[p] \in ignore THEN LexNext(text, p + 1, lineno)
    ELSE IF MatchATTRIBUTE(text, p) # 0 THEN
        LET e == MatchATTRIBUTE(text, p)
        IN  Step("tok", Token("ATTRIBUTE", Slice(text, p, e), lineno, p), e, lineno)
    ELSE IF MatchCOMMENT(text, p) # 0 THEN
        LET e == MatchCOMMENT(text, p)
        IN  LexNext(text, e, lineno + CountNL(Slice(text, p, e)))
    ELSE IF MatchNL(text, p) # 0 THEN
        LET e == MatchNL(text, p)
            t == Token("NL", Slice(text, p, e), lineno, p)
        IN  Step("tok", t, e, t.lineno + CountNL(t.value))
    ELSE IF MatchID(text, p) # 0 THEN
        LET e == MatchID(text, p)
            v == Slice(text, p, e)
        IN  Step("tok", Token(Keyword(v), v, lineno, p), e, lineno)
    ELSE IF MatchSTRING(text, p) # 0 THEN
        LET e == MatchSTRING(text, p)
        IN  Step("tok", Token("STRING", Slice(text, p, e), lineno, p), e, lineno)
    ELSE IF text[p] = "*" THEN
        Step("tok", Token("MUL", <<"*">>, lineno, p), p + 1, lineno)
    ELSE IF text[p] = "/" THEN
        Step("tok", Token("DIV", <<"/">>, lineno, p), p + 1, lineno)
    ELSE IF MatchTERM(text, p) # 0 THEN
        LET e == MatchTERM(text, p)
        IN  Step("tok", Token("TERM", Slice(text, p, e), lineno, p), e, lineno)
    ELSE IF text[p] \in literals THEN
        Step("tok", Token(text[p], <<text[p]>>, lineno, p), p + 1, lineno)
    ELSE \* Lexer.error(t): t.value is the rest of the text
        Step("error", Token("ERROR", Slice(text, p, Len(text) + 1), lineno, p),
             p, lineno)

\* TealLexer(filename, source_text): index 0 (position 1), lineno 1
NewLexer == [index |-> 1, lineno |-> 1, toks |-> << >>, pc |-> "run"]

\* The lexer after its next token.  A raised TealParseError is kept as a
\* last ERROR entry of toks: whoever asks for that token gets the exception.
tokenize(text, lx) ==
    LET s == LexNext(text, lx.index, lx.lineno)
    IN  [index |-> s.index, lineno |-> s.lineno,
         toks |-> IF s.kind = "eof" THEN lx.toks ELSE Append(lx.toks, s.tok),
         pc |-> IF s.kind = "tok" THEN "run" ELSE s.kind]

RECURSIVE TokenizeAll(_, _)
TokenizeAll(text, lx) ==
    IF lx.pc # "run" THEN lx ELSE TokenizeAll(text, tokenize(text, lx))

(***************************************************************************)
(* post_lex(toks): a generator over the lexer's lazy token stream.  gen    *)
(* holds its locals (t, next_tok, last, term), where it stands (pc), what  *)
(* is left of chain(toks, [nl]) (src) and, for the observer, every token   *)
(* it has yielded (out, as it was when yielded) with the number of lexer   *)
(* tokens read by then (reads).  An attribute not yet set is -1.           *)
(***************************************************************************)
\* term = Token(); term.value = ";"; term.type = "TERM"
term0 == [type |-> "TERM", value |-> <<";">>, lineno |-> -1, index |-> -1,
          obj |-> "term"]
\* nl = Token(); nl.type = "NL"
nl == [type |-> "NL", value |-> << >>, lineno |-> -1, index |-> -1,
       obj |-> "nl"]

NewGen ==
    [pc |-> "start", src |-> "toks", t |-> None, next_tok |-> None,
     last |-> None, term |-> term0, out |-> << >>, reads |-> << >>,
     exc |-> "none"]

Pipe(lx, g) == [lexer |-> lx, gen |-> g]

\* yield tok
Yield(g, tok, nread) ==
    [g EXCEPT !.out = Append(@, tok), !.reads = Append(@, nread)]

\* t = next(toks); last = None.  A StopIteration leaving a generator is a
\* RuntimeError (PEP 479); an error raised by the lexer passes through.
PostLexFirst(text, lx, g) ==
    LET lx2 == tokenize(text, lx)
    IN  CASE lx2.pc = "eof" ->
               Pipe(lx2, [g EXCEPT !.pc = "raised", !.exc = "RuntimeError"])
          [] lx2.pc = "error" ->
               Pipe(lx2, [g EXCEPT !.pc = "raised", !.exc = "TealParseError"])
          [] OTHER ->
               Pipe(lx2, [g EXCEPT !.pc = "for", !.t = lx2.toks[Len(lx2.toks)],
                                   !.last = None])

\* YieldT without the test of t.type
YieldT_AlsoNL(g, nread) ==
    [Yield(g, g.t, nread) EXCEPT !.last = g.t, !.pc = "body"]

\* if t.type != "NL": yield t; last = t
YieldT(g, nread) ==
    IF g.t.type # "NL"
    THEN [Yield(g, g.t, nread) EXCEPT !.last = g.t, !.pc = "body"]
    ELSE [g EXCEPT !.pc = "body"]

\* for next_tok in chain(toks, [nl]): the next item, then the body up to
\* and including `yield t`
PostLexFor(text, lx, g) ==
    IF g.src = "end" THEN Pipe(lx, [g EXCEPT !.pc = "done"])
    ELSE LET lx2 == tokenize(text, lx)
         IN  CASE lx2.pc = "error" ->
                    Pipe(lx2, [g EXCEPT !.pc = "raised",
                                        !.exc = "TealParseError"])
               [] lx2.pc = "eof" ->
                    Pipe(lx2, YieldT([g EXCEPT !.next_tok = nl, !.src = "end"],
                                     Len(lx2.toks)))
               [] OTHER ->
                    Pipe(lx2, YieldT([g EXCEPT !.next_tok =
                                                  lx2.toks[Len(lx2.toks)]],
                                     Len(lx2.toks)))

\* InsertTerm without the case of t being a `}`
InsertTerm_NotAfterBrace(last, t, next_tok) ==
    /\ last # None
    /\ last.type # "TERM"
    /\ \/ (next_tok.type = "}" /\ t.type # "TERM")
       \/ (next_tok.type = "NL" /\ t.type # "TERM")

\* the condition under which the body yields term
InsertTerm(last, t, next_tok) ==
    /\ last # None
    /\ last.type # "TERM"
    /\ \/ (t.type = "}" /\ next_tok.type # "TERM")
       \/ (next_tok.type = "}" /\ t.type # "TERM")
       \/ (next_tok.type = "NL" /\ t.type # "TERM")

\* term.lineno = t.lineno; term.index = t.index; if ...: yield term;
\* last = term; and then t = next_tok
PostLexBody(lx, g) ==
    LET tm == [g.term EXCEPT !.lineno = g.t.lineno, !.index = g.t.index]
        g1 == [g EXCEPT !.term = tm]
        g2 == IF InsertTerm(g.last, g.t, g.next_tok)
              THEN [Yield(g1, tm, Len(lx.toks)) EXCEPT !.last = tm]
              ELSE g1
    IN  Pipe(lx, [g2 EXCEPT !.t = g.next_tok, !.pc = "for"])

\* one resumption of the generator
post_lex(text, lx, g) ==
    CASE g.pc = "start" -> PostLexFirst(text, lx, g)
      [] g.pc = "for" -> PostLexFor(text, lx, g)
      [] g.pc = "body" -> PostLexBody(lx, g)
      [] OTHER -> Pipe(lx, g)

(***************************************************************************)
(* Specification Spec: the lexer and post_lex on every text of at most     *)
(* MaxLen characters over identifiers, `;`, newlines, braces and blanks.   *)
(***************************************************************************)
PostLexChars == {"a", ";", NLc, "{", "}", " "}

TextsOver(S, n) == UNION {[1..k -> S] : k \in 0..n}

Idle == [pc |-> "idle", op |-> "none"]

Init ==
    /\ source_text \in TextsOver(PostLexChars, MaxLen)
    /\ lexer = NewLexer
    /\ gen = NewGen
    /\ result = Idle
    /\ slot = None
    /\ outcome = Idle

Start ==
    /\ gen.pc = "start"
    /\ lexer' = PostLexFirst(source_text, lexer, gen).lexer
    /\ gen' = PostLexFirst(source_text, lexer, gen).gen
    /\ UNCHANGED <<source_text, result, slot, outcome>>

ForNext ==
    /\ gen.pc = "for"
    /\ lexer' = PostLexFor(source_text, lexer, gen).lexer
    /\ gen' = PostLexFor(source_text, lexer, gen).gen
    /\ UNCHANGED <<source_text, result, slot, outcome>>

Body ==
    /\ gen.pc = "body"
    /\ gen' = PostLexBody(lexer, gen).gen
    /\ UNCHANGED <<source_text, lexer, result, slot, outcome>>

Next == Start \/ ForNext \/ Body

Spec == Init /\ [][Next]_vars

\* the types of the tokens yielded so far
Types(out) == [k \in 1..Len(out) |-> out[k].type]

(***************************************************************************)
(* C1: the stream post_lex emits never holds two TERM tokens in a row,     *)
(* whether they are the lexer's `;` or the inserted ones.                  *)
(***************************************************************************)
C1_NoConsecutiveTerm ==
    \A k \in 1..(Len(gen.out) - 1) :
        ~(gen.out[k].type = "TERM" /\ gen.out[k + 1].type = "TERM")

\* a token the lexer produced (not post_lex's own term)
IsLexed(t) == t.obj = "lexed"
NotNL(t) == t.type # "NL"

\* s is t, or t cut short
IsPrefix(s, t) == Len(s) <= Len(t) /\ s = SubSeq(t, 1, Len(s))

\* how many tokens the lexer had produced up to and including tok
ReadAt(toks, tok) == CHOOSE j \in 1..Len(toks) : toks[j] = tok

(***************************************************************************)
(* C11: post_lex never emits NL and neither drops, reorders nor invents    *)
(* other tokens: what it has emitted, its own TERM tokens left out, is     *)
(* the start of the lexer's stream with the NL tokens left out, and all    *)
(* of it once post_lex has ended; and a token is emitted when at most the  *)
(* one token that follows it has been read.                                *)
(***************************************************************************)
C11_StreamPreserved ==
    /\ \A k \in 1..Len(gen.out) : gen.out[k].type # "NL"
    /\ IsPrefix(SelectSeq(gen.out, IsLexed), SelectSeq(lexer.toks, NotNL))
    /\ gen.pc \in {"done", "raised"} =>
           SelectSeq(gen.out, IsLexed) = SelectSeq(lexer.toks, NotNL)
    /\ \A k \in 1..Len(gen.out) :
           IsLexed(gen.out[k]) =>
               gen.reads[k] <= ReadAt(lexer.toks, gen.out[k]) + 1

\* post_lex has ended on a stream of several tokens with a line break: it
\* read an NL, emitted a TERM of its own and every other token
C11_Witness ==
    /\ gen.pc = "done"
    /\ \E k \in 1..Len(lexer.toks) : lexer.toks[k].type = "NL"
    /\ \E k \in 1..Len(gen.out) : ~IsLexed(gen.out[k])
    /\ Len(SelectSeq(gen.out, IsLexed)) >= 2
    /\ \E k \in 1..Len(gen.out) :
           IsLexed(gen.out[k]) /\ gen.reads[k] < Len(lexer.toks)

(***************************************************************************)
(* C12: in the stream post_lex emits, every `}` is immediately followed by *)
(* a TERM (once post_lex has gone past it), and every `}` that is not the  *)
(* first token emitted is immediately preceded by a TERM.                  *)
(***************************************************************************)
C12_BraceBetweenTerms ==
    /\ \A k \in 1..Len(gen.out) :
           gen.out[k].type = "}" =>
               /\ k > 1 => gen.out[k - 1].type = "TERM"
               /\ k < Len(gen.out) => gen.out[k + 1].type = "TERM"
    /\ (gen.pc = "done" /\ gen.out # << >>) =>
           gen.out[Len(gen.out)].type # "}"

\* post_lex has ended and emitted a `}` after other tokens, with a TERM of
\* its own before it and another after it
C12_Witness ==
    /\ gen.pc = "done"
    /\ \E k \in 2..(Len(gen.out) - 1) :
           /\ gen.out[k].type = "}"
           /\ ~IsLexed(gen.out[k - 1])
           /\ ~IsLexed(gen.out[k + 1])

(***************************************************************************)
(* C13: a token is never mutated after it has been emitted: the type,      *)
(* value, line and index of a token post_lex has yielded (its own TERM in  *)
(* particular) are, for whoever holds the token, still those it was        *)
(* yielded with while post_lex goes on.                                    *)
(***************************************************************************)
C13_NoMutationAfterEmission ==
    \A k \in 1..Len(gen.out) :
        ~IsLexed(gen.out[k]) => gen.term = gen.out[k]

(***************************************************************************)
(* Locations: index_column, TealParseError, N.                             *)
(***************************************************************************)
\* text.rfind("\n", 0, index): the offset of the last newline before offset
\* index, or -1
rfindNL(text, index) ==
    LET hits == {k \in 1..Min(index, Len(text)) : text[k] = NLc}
    IN  IF hits = {} THEN -1
        ELSE (CHOOSE k \in hits : \A m \in hits : m <= k) - 1

index_column(text, index) ==
    LET last_cr == IF rfindNL(text, index) < 0 THEN 0 ELSE rfindNL(text, index)
    IN  index - last_cr

\* the position of line k's first character (k counted from 0), where the
\* text has at least k newlines
LineStart(text, k) ==
    IF k = 0 THEN 1
    ELSE (CHOOSE q \in 1..Len(text) :
              text[q] = NLc /\ CountNL(SubSeq(text, 1, q)) = k) + 1

\* text.split("\n")[k]
SplitLine(text, k) ==
    Slice(text, LineStart(text, k), LineEnd(text, LineStart(text, k)))

\* TealParseError(msg, filename, source_text, token)
TealParseError(text, token) ==
    [lineno |-> token.lineno,
     index |-> token.index,
     source_lineno |-> token.lineno,
     source_line |-> SplitLine(text, token.lineno - 1),
     source_column |-> index_column(text, token.index)]

\* N(parser, parse_item, node_cls, *args): the location given to the node,
\* parse_item.index being the index of the production's first token
N(text, index) ==
    LET lineno == CountNL(Slice(text, 1, index + 1))
    IN  [lineno |-> lineno,
         line |-> <<text[lineno + 1]>>,
         column |-> index_column(text, index)]

(***************************************************************************)
(* TealParser, on the tokens of the model's texts: ID, STRING, ATTRIBUTE,  *)
(* IF, ELIF, ELSE, TERM and the braces.  The grammar is LALR(1) and sly    *)
(* reports the first token that cannot continue a sentence, so the rules   *)
(* are read here as a predictive parser over ts, the tokens post_lex       *)
(* yields followed by how the stream ends: $end, or $raise when asking for *)
(* one more token raises (value names the exception).  A rule gives        *)
(* [exc, tok, pos, val, nodes]: the exception raised ("none" if none) and  *)
(* its token, the position after the rule, its value, and every node N     *)
(* built (kept for the observer with `at`, the index N was given).         *)
(***************************************************************************)
End == [type |-> "$end", value |-> << >>, lineno |-> -1, index |-> -1,
        obj |-> "end"]

\* the token stream as the parser meets it
ParserInput(lx, g) ==
    g.out \o
    << IF g.pc # "raised" THEN End
       ELSE IF g.exc = "TealParseError"
       THEN [lx.toks[Len(lx.toks)] EXCEPT !.type = "$raise",
                                          !.value = <<"TealParseError">>]
       ELSE [End EXCEPT !.type = "$raise", !.value = <<g.exc>>] >>

Ok(pos, val, nodes) ==
    [exc |-> "none", tok |-> None, pos |-> pos, val |-> val, nodes |-> nodes]
Fail(exc, tok) ==
    [exc |-> exc, tok |-> tok, pos |-> 0, val |-> << >>, nodes |-> << >>]

\* TealParser.error(p): p is None at the end of the input, and p.value fails
error(p) ==
    IF p.type = "$end" THEN Fail("AttributeError", None)
    ELSE Fail("TealParseError", p)

\* the token at pos cannot be shifted, or asking for it raises
Unexpected(ts, pos) ==
    IF ts[pos].type = "$raise" THEN Fail(ts[pos].value[1], ts[pos])
    ELSE error(ts[pos])

Node(cls, text, tok, args) ==
    [cls |-> cls, loc |-> N(text, tok.index), args |-> args]
Built(cls, text, tok, else_cls) ==
    [cls |-> cls, at |-> tok.index, else_cls |-> else_cls,
     lineno |-> N(text, tok.index).lineno,
     line |-> N(text, tok.index).line,
     column |-> N(text, tok.index).column]

RECURSIVE expr(_, _, _), conditional(_, _, _), rest_if(_, _, _),
          block_expr(_, _, _), expressions(_, _, _), terminated_expr(_, _, _),
          more_expressions(_, _, _)

\* p.terminated_expr + p.more_expressions
expressions_value(te, me) ==
    IF me.exc # "none" THEN me
    ELSE Ok(me.pos, te.val \o me.val, te.nodes \o me.nodes)

\* the more_expressions of "terminated_expr more_expressions", te being
\* what terminated_expr gave
expressions_more(text, ts, te) ==
    IF te.exc # "none" THEN te
    ELSE expressions_value(te, more_expressions(text, ts, te.pos))

\* @_("terminated_expr more_expressions")
expressions(text, ts, pos) ==
    expressions_more(text, ts, terminated_expr(text, ts, pos))

\* @_("nothing") / @_("terminated_expr more_expressions")
more_expressions(text, ts, pos) ==
    IF ts[pos].type \in {"$end", "}"} THEN Ok(pos, << >>, << >>)
    ELSE expressions(text, ts, pos)

\* the TERM of "expr TERM", e being what expr gave
terminated_expr_TERM(ts, e) ==
    IF e.exc # "none" THEN e
    ELSE IF ts[e.pos].type # "TERM" THEN Unexpected(ts, e.pos)
    ELSE Ok(e.pos + 1, <<e.val>>, e.nodes)

\* @_("TERM") / @_("expr TERM")
terminated_expr(text, ts, pos) ==
    IF ts[pos].type = "TERM" THEN Ok(pos + 1, << >>, << >>)
    ELSE terminated_expr_TERM(ts, expr(text, ts, pos))

\* the '}' of "'{' expressions '}'" and the rule's function, es being what
\* expressions gave
block_expr_value(text, ts, pos, es) ==
    IF es.exc # "none" THEN es
    ELSE IF ts[es.pos].type # "}" THEN Unexpected(ts, es.pos)
    ELSE IF es.val = << >> THEN Fail("Exception", ts[es.pos])
    ELSE Ok(es.pos + 1, Node("N_Progn", text, ts[pos], es.val),
            Append(es.nodes, Built("N_Progn", text, ts[pos], "-")))

\* @_("'{' expressions '}'")
block_expr(text, ts, pos) ==
    IF ts[pos].type # "{" THEN Unexpected(ts, pos)
    ELSE block_expr_value(text, ts, pos, expressions(text, ts, pos + 1))

\* rest_if with a third rule, @_("nothing"), that gives a null node
rest_if_ElseOptional(text, ts, pos) ==
    CASE ts[pos].type = "ELIF" -> conditional(text, ts, pos)
      [] ts[pos].type = "ELSE" -> block_expr(text, ts, pos + 1)
      [] OTHER -> Ok(pos, [cls |-> "None", loc |-> None, args |-> << >>],
                     << >>)

\* @_("ELIF expr block_expr TERM rest_if") / @_("ELSE block_expr")
rest_if(text, ts, pos) ==
    CASE ts[pos].type = "ELIF" -> conditional(text, ts, pos)
      [] ts[pos].type = "ELSE" -> block_expr(text, ts, pos + 1)
      [] OTHER -> Unexpected(ts, pos)

\* N(self, p, n.N_If, p.expr, p.block_expr, p.rest_if), with what expr,
\* block_expr and rest_if gave
conditional_value(text, ts, pos, c, b, r) ==
    IF r.exc # "none" THEN r
    ELSE Ok(r.pos, Node("N_If", text, ts[pos], <<c.val, b.val, r.val>>),
            Append(c.nodes \o b.nodes \o r.nodes,
                   Built("N_If", text, ts[pos], r.val.cls)))

\* the "TERM rest_if" of a conditional
conditional_rest(text, ts, pos, c, b) ==
    IF b.exc # "none" THEN b
    ELSE IF ts[b.pos].type # "TERM" THEN Unexpected(ts, b.pos)
    ELSE conditional_value(text, ts, pos, c, b, rest_if(text, ts, b.pos + 1))

\* the "block_expr TERM rest_if" of a conditional
conditional_block(text, ts, pos, c) ==
    IF c.exc # "none" THEN c
    ELSE conditional_rest(text, ts, pos, c, block_expr(text, ts, c.pos))

\* @_("IF expr block_expr TERM rest_if"), and the ELIF rule of rest_if
conditional(text, ts, pos) ==
    conditional_block(text, ts, pos, expr(text, ts, pos + 1))

\* a key expression of dict_items: no `:` is in the model's texts, so it
\* is followed by a token that cannot be shifted
hash_key(ts, key) ==
    IF key.exc # "none" THEN key ELSE Unexpected(ts, key.pos)

\* @_("'{' maybe_term dict_items maybe_term '}'")
hash(text, ts, pos) ==
    LET p1 == IF ts[pos + 1].type = "TERM" THEN pos + 2 ELSE pos + 1
        p2 == IF ts[p1].type = "TERM" THEN p1 + 1 ELSE p1
    IN  IF ts[p1].type \notin {"TERM", "}"}
        THEN hash_key(ts, expr(text, ts, p1))
        ELSE IF ts[p2].type # "}" THEN Unexpected(ts, p2)
        ELSE Ok(p2 + 1, Node("N_Call", text, ts[pos], << >>),
                <<Built("N_Id", text, ts[pos], "-"),
                  Built("N_Call", text, ts[pos], "-")>>)

\* the expr rules whose first token is in the model's texts
expr(text, ts, pos) ==
    CASE ts[pos].type = "ID" ->
             Ok(pos + 1, Node("N_Id", text, ts[pos], << >>),
                <<Built("N_Id", text, ts[pos], "-")>>)
      [] ts[pos].type = "STRING" ->
             \* literal_eval(p.STRING): a line break inside the quotes
             IF CountNL(ts[pos].value) > 0 THEN Fail("SyntaxError", ts[pos])
             ELSE Ok(pos + 1, Node("N_Literal", text, ts[pos], << >>),
                     <<Built("N_Literal", text, ts[pos], "-")>>)
      [] ts[pos].type = "ATTRIBUTE" ->
             \* maybe_attribute FN ...: no FN is in the model's texts
             Unexpected(ts, pos + 1)
      [] ts[pos].type = "IF" -> conditional(text, ts, pos)
      [] ts[pos].type = "{" -> hash(text, ts, pos)
      [] OTHER -> Unexpected(ts, pos)

\* the end of the input after "expressions"
top_end(ts, es) ==
    IF es.exc # "none" THEN es
    ELSE IF ts[es.pos].type # "$end" THEN Unexpected(ts, es.pos)
    ELSE es

\* @_("nothing") / @_("expressions")
top(text, ts) ==
    IF ts[1].type = "$end" THEN Ok(1, << >>, << >>)
    ELSE top_end(ts, expressions(text, ts, 1))

\* what tl_parse returns or raises, r being what the parser gave
tl_parse_result(text, r) ==
    [pc |-> "done", op |-> "tl_parse",
     kind |-> IF r.exc = "none" THEN "returned" ELSE r.exc,
     value |-> r.val,
     nodes |-> r.nodes,
     error |-> IF r.exc = "TealParseError"
               THEN TealParseError(text, r.tok) ELSE None]

\* tl_parse(filename, text): parser.parse(post_lex(lexer.tokenize(text)))
tl_parse(text, lx, g) ==
    tl_parse_result(text, top(text, ParserInput(lx, g)))

(***************************************************************************)
(* Specification SpecParse: tl_parse on texts made of at most MaxChunks    *)
(* lexemes, and on conditionals with up to MaxElif elif branches.  The     *)
(* parser pulls tokens from post_lex, which pulls them from the lexer; the *)
(* pulls are the steps Start, ForNext and Body, and Parse is the parser's  *)
(* run over what they delivered.                                           *)
(***************************************************************************)
Chunks ==
    {<<"a">>, <<";">>, <<NLc>>, <<"{">>, <<"}">>, <<"%">>,
     <<"#", "[", "a", "]", NLc>>,
     <<"/", "*", NLc, "*", "/">>,
     <<"/", "/", "a", NLc>>,
     <<"\"", "a", NLc, "a", "\"">>}

ChunkTexts == {Concat(cs) : cs \in TextsOver(Chunks, MaxChunks)}

Branch(kw) == kw \o <<" ", "a", "{", "a", "a", "}">>

RECURSIVE Elifs(_, _)
Elifs(n, sep) ==
    IF n = 0 THEN << >>
    ELSE <<sep>> \o Branch(<<"e", "l", "i", "f">>) \o Elifs(n - 1, sep)

\* if a{aa} (elif a{aa})* (else{aa})? and what follows it
CondSrc(n, else_, sep, tail) ==
    Branch(<<"i", "f">>) \o Elifs(n, sep)
        \o (IF else_ THEN <<sep, "e", "l", "s", "e", "{", "a", "a", "}">>
            ELSE << >>)
        \o tail

\* the conditionals with (else_) or without an else branch
CondTextsWith(else_) ==
    {CondSrc(n, else_, sep, tail) :
        n \in 0..MaxElif, sep \in {" ", NLc},
        tail \in {<< >>, <<NLc, "a">>, <<NLc, ";">>}}

CondTexts == CondTextsWith(TRUE) \cup CondTextsWith(FALSE)

InitParse ==
    /\ source_text \in ChunkTexts \cup CondTexts
    /\ lexer = NewLexer
    /\ gen = NewGen
    /\ result = Idle
    /\ slot = None
    /\ outcome = Idle

Parse ==
    /\ gen.pc \in {"done", "raised"}
    /\ result = Idle
    /\ result' = tl_parse(source_text, lexer, gen)
    /\ UNCHANGED <<source_text, lexer, gen, slot, outcome>>

NextParse == Start \/ ForNext \/ Body \/ Parse

SpecParse == InitParse /\ [][NextParse]_vars

(***************************************************************************)
(* C7: tl_parse has exactly two outcomes for every source text (an empty   *)
(* one, one that ends too early, one with an unrecognised character or an  *)
(* empty block included): it returns the list of top-level nodes, or it    *)
(* fails with TealParseError; no other kind of failure happens.            *)
(***************************************************************************)
C7_ReturnsOrTealParseError ==
    result.pc = "done" => result.kind \in {"returned", "TealParseError"}

\* one plus the number of newlines before Python offset index
TrueLineno(text, index) == 1 + CountNL(Slice(text, 1, index + 1))

(***************************************************************************)
(* C8: the line counter the lexer attaches to every token is one plus the  *)
(* number of newlines that precede the token in the source text, whatever  *)
(* was lexed before it, and the line a TealParseError reports is the       *)
(* source line on which its token stands.                                  *)
(***************************************************************************)
C8_LinenoIsSourceLine ==
    /\ \A k \in 1..Len(lexer.toks) :
           lexer.toks[k].lineno =
               TrueLineno(source_text, lexer.toks[k].index)
    /\ (result.pc = "done" /\ result.kind = "TealParseError") =>
           /\ result.error.source_lineno =
                  TrueLineno(source_text, result.error.index)
           /\ result.error.source_line =
                  SplitLine(source_text,
                            TrueLineno(source_text, result.error.index) - 1)

C10_NodeLocation ==
    (result.pc = "done" /\ result.kind = "returned") =>
        \E base \in {0, 1} :
            \A k \in 1..Len(result.nodes) :
                LET nd == result.nodes[k]
                    ln == TrueLineno(source_text, nd.at) - 1
                IN  /\ nd.lineno \in {ln, ln + 1}
                    /\ nd.line = SplitLine(source_text, ln)
                    /\ nd.column =
                           nd.at + 1 - LineStart(source_text, ln) + base

(***************************************************************************)
(* The machine Instruction class.                                          *)
(*                                                                         *)
(* An operand is [cls, val]: an instance of class cls.  The classes of     *)
(* machine/types.py are TlType's subclasses; "int" is a host primitive.    *)
(* A class attribute that is None is -1 (num_ops) or << >> (op_types).     *)
(***************************************************************************)
TlTypes == {"TlInt", "TlString"}
OperandValues ==
    {[cls |-> "TlInt", val |-> 0], [cls |-> "TlInt", val |-> 1],
     [cls |-> "TlString", val |-> 0], [cls |-> "int", val |-> 0]}

\* isinstance(a, b)
isinstance(a, b) == a.cls = b \/ (b = "TlType" /\ a.cls \in TlTypes)

\* callable(a): no operand class of the model defines __call__
callable(a) == FALSE

\* the Instruction subclasses of the model: num_ops and op_types of each
Opcodes ==
    [Pop    |-> [num_ops |-> 0,  op_types |-> << >>],
     PushV  |-> [num_ops |-> 1,  op_types |-> <<"TlType">>],
     Jump   |-> [num_ops |-> 1,  op_types |-> <<"TlInt">>],
     Bind   |-> [num_ops |-> 2,  op_types |-> <<"TlString", "TlInt">>],
     Call   |-> [num_ops |-> 1,  op_types |-> <<"callable">>],
     Instruction |-> [num_ops |-> -1, op_types |-> << >>]]

OpcodeNames == DOMAIN Opcodes

\* the module handed to deserialise: its opcode classes, and what else every
\* module holds under a name (__name__, __doc__: a str and None)
instruction_set ==
    [n \in OpcodeNames \cup {"__name__", "__doc__"} |->
        IF n \in OpcodeNames THEN "class" ELSE "not callable"]

\* the names a serialised instruction may carry
Names == DOMAIN instruction_set \cup {"Nope"}

\* A host value handed in as a source entry is [py, v]: its Python type and
\* its text, so the int 1 is [py |-> "int", v |-> "1"].  str(x) is the str
\* with that text: the model's plain string.
str(x) == x.v

SourceArgs ==
    {<< >>, <<[py |-> "str", v |-> "f.tl:1"]>>, <<[py |-> "int", v |-> "1"]>>}

PyStr(s) == [py |-> "str", v |-> s]

Raised(exc) == [exc |-> exc, obj |-> None]
Returned(obj) == [exc |-> "none", obj |-> obj]

\* ok = callable(a) if b == callable else isinstance(a, b)
OperandOk(a, b) == IF b = "callable" THEN callable(a) ELSE isinstance(a, b)

\* Instruction.__init__ without its first loop (the TlType check)
Instruction_init_NoTlTypeCheck(cls, operands, source) ==
    LET num_ops == Opcodes[cls].num_ops
        op_types == Opcodes[cls].op_types
    IN  IF num_ops \notin {-1, 0} /\ Len(operands) # num_ops
        THEN Raised("BadOperandsLength")
        ELSE IF op_types # << >>
                /\ \E k \in 1..Min(Len(operands), Len(op_types)) :
                       ~OperandOk(operands[k], op_types[k])
        THEN Raised("BadOperandsType")
        ELSE Returned([type |-> cls, name |-> cls,
                       source |-> [k \in 1..Len(source) |-> str(source[k])],
                       operands |-> operands])

\* type(self).__init__(self, *operands, source=source)
Instruction_init(cls, operands, source) ==
    LET num_ops == Opcodes[cls].num_ops
        op_types == Opcodes[cls].op_types
    IN  IF \E k \in 1..Len(operands) : ~isinstance(operands[k], "TlType")
        THEN Raised("BadOperandsType")
        ELSE IF num_ops \notin {-1, 0} /\ Len(operands) # num_ops
        THEN Raised("BadOperandsLength")
        ELSE IF op_types # << >>
                /\ \E k \in 1..Min(Len(operands), Len(op_types)) :
                       ~OperandOk(operands[k], op_types[k])
        THEN Raised("BadOperandsType")
        ELSE Returned([type |-> cls, name |-> cls,
                       source |-> [k \in 1..Len(source) |-> str(source[k])],
                       operands |-> operands])

\* TlType.serialise / TlType.deserialise: [class name, data] and back
TlType_serialise(o) == <<o.cls, o.val>>
TlType_deserialise(d) == [cls |-> d[1], val |-> d[2]]

\* Instruction.serialise
serialise(self) ==
    <<self.name,
      [k \in 1..Len(self.operands) |-> TlType_serialise(self.operands[k])],
      self.source>>

\* Instruction.deserialise that does not hand obj[2] on as source
deserialise_NoSource(obj, iset) ==
    LET name == obj[1]
        operands == [k \in 1..Len(obj[2]) |-> TlType_deserialise(obj[2][k])]
    IN  IF name \notin DOMAIN iset THEN Raised("AttributeError")
        ELSE IF iset[name] # "class" THEN Raised("TypeError")
        ELSE Instruction_init(name, operands, << >>)

\* Instruction.deserialise(obj, instruction_set)
deserialise(obj, iset) ==
    LET name == obj[1]
        operands == [k \in 1..Len(obj[2]) |-> TlType_deserialise(obj[2][k])]
        source == [k \in 1..Len(obj[3]) |-> PyStr(obj[3][k])]
    IN  IF name \notin DOMAIN iset THEN Raised("AttributeError")
        ELSE IF iset[name] # "class" THEN Raised("TypeError")
        ELSE Instruction_init(name, operands, source)

\* zip(a, b)
zip(a, b) == [k \in 1..Min(Len(a), Len(b)) |-> <<a[k], b[k]>>]

\* Instruction.__eq__
Instruction_eq(self, other) ==
    /\ self.type = other.type
    /\ \A k \in DOMAIN zip(self.operands, other.operands) :
           zip(self.operands, other.operands)[k][1]
               = zip(self.operands, other.operands)[k][2]

(***************************************************************************)
(* Specification SpecInstr follows one instruction: it is constructed      *)
(* (slot, when the constructor returns), then compared with others and     *)
(* serialised and deserialised, one call on it per behaviour.  outcome is  *)
(* what the last call was given and what it returned or raised.            *)
(***************************************************************************)
OperandTuples == TextsOver(OperandValues, MaxOperands)

InitInstr ==
    /\ source_text = << >>
    /\ lexer = NewLexer
    /\ gen = NewGen
    /\ result = Idle
    /\ slot = None
    /\ outcome = Idle

New(cls, operands, source) ==
    LET r == Instruction_init(cls, operands, source)
    IN  /\ outcome = Idle
        /\ slot' = IF r.exc = "none" THEN r.obj ELSE slot
        /\ outcome' = [op |-> "init", cls |-> cls, operands |-> operands,
                       exc |-> r.exc, obj |-> r.obj]
        /\ UNCHANGED <<source_text, lexer, gen, result>>

Eq(cls, operands, source) ==
    LET r == Instruction_init(cls, operands, source)
    IN  /\ outcome.op = "init"
        /\ slot # None
        /\ r.exc = "none"
        /\ outcome' = [op |-> "eq", other |-> r.obj,
                       value |-> Instruction_eq(slot, r.obj)]
        /\ UNCHANGED <<source_text, lexer, gen, result, slot>>

Deserialise(name) ==
    LET data == <<name, serialise(slot)[2], serialise(slot)[3]>>
        r == deserialise(data, instruction_set)
    IN  /\ outcome.op = "init"
        /\ slot # None
        /\ outcome' = [op |-> "deserialise", data |-> data,
                       exc |-> r.exc, obj |-> r.obj]
        /\ UNCHANGED <<source_text, lexer, gen, result, slot>>

NextInstr ==
    \/ \E cls \in OpcodeNames, operands \in OperandTuples, source \in SourceArgs :
           New(cls, operands, source)
    \/ \E cls \in OpcodeNames, operands \in OperandTuples, source \in SourceArgs :
           Eq(cls, operands, source)
    \/ \E name \in Names : Deserialise(name)

SpecInstr == InitInstr /\ [][NextInstr]_vars

\* the inputs of the constructor call that outcome records
RawOperand(operands) ==
    \E k \in 1..Len(operands) : ~isinstance(operands[k], "TlType")
KindMismatch(cls, operands) ==
    \E k \in 1..Min(Len(operands), Len(Opcodes[cls].op_types)) :
        ~OperandOk(operands[k], Opcodes[cls].op_types[k])
ArityRequired(cls) == Opcodes[cls].num_ops # -1

(***************************************************************************)
(* C2: constructing an Instruction whose operand count differs from the    *)
(* num_ops its opcode requires always fails with BadOperandsLength, for    *)
(* every opcode (those that require zero operands too) and whatever the    *)
(* operands are.                                                           *)
(***************************************************************************)
C2_WrongArityRaisesLength ==
    (/\ outcome.op = "init"
     /\ ArityRequired(outcome.cls)
     /\ Len(outcome.operands) # Opcodes[outcome.cls].num_ops)
        => outcome.exc = "BadOperandsLength"

(***************************************************************************)
(* C3, as claimed: an operand of the wrong kind (not a TlType, or not of   *)
(* the type its position declares) always fails with BadOperandsType.      *)
(***************************************************************************)
C3_WrongKindRaisesType ==
    (/\ outcome.op = "init"
     /\ (RawOperand(outcome.operands)
            \/ KindMismatch(outcome.cls, outcome.operands)))
        => outcome.exc = "BadOperandsType"

(***************************************************************************)
(* C3, amended: an operand that is no TlType always fails with             *)
(* BadOperandsType; with TlType operands only, an operand that does not    *)
(* match the type declared for its position fails with BadOperandsType,    *)
(* unless the opcode declares a non-zero num_ops and the count differs,    *)
(* which fails with BadOperandsLength first; an instruction that is        *)
(* constructed has only TlType operands, each matching the type declared   *)
(* for its position.                                                       *)
(***************************************************************************)
C3_KindChecked ==
    outcome.op = "init" =>
        LET raw == RawOperand(outcome.operands)
            mismatch == KindMismatch(outcome.cls, outcome.operands)
            badlen == /\ Opcodes[outcome.cls].num_ops \notin {-1, 0}
                      /\ Len(outcome.operands) # Opcodes[outcome.cls].num_ops
        IN  /\ raw => outcome.exc = "BadOperandsType"
            /\ (~raw /\ mismatch /\ ~badlen) => outcome.exc = "BadOperandsType"
            /\ (~raw /\ mismatch /\ badlen) => outcome.exc = "BadOperandsLength"
            /\ outcome.exc = "none" =>
                   /\ ~raw /\ ~mismatch
                   /\ outcome.obj.operands = outcome.operands

\* a TlType operand of the wrong type for its position was rejected
C3_Witness ==
    /\ outcome.op = "init"
    /\ ~RawOperand(outcome.operands)
    /\ KindMismatch(outcome.cls, outcome.operands)
    /\ Len(outcome.operands) = Opcodes[outcome.cls].num_ops
    /\ outcome.exc = "BadOperandsType"

(***************************************************************************)
(* C4: two instructions compare equal iff they have the same opcode and    *)
(* the same operands position by position (operand lists of different      *)
(* length are never equal); source traces play no part.                    *)
(***************************************************************************)
C4_EqIffSameOpcodeAndOperands ==
    outcome.op = "eq" =>
        (outcome.value <=> (/\ slot.type = outcome.other.type
                            /\ slot.operands = outcome.other.operands))

(***************************************************************************)
(* C5: serialisation round-trips.  For the serialised form data of a valid *)
(* instruction i, deserialise(data, table) succeeds, serialising its       *)
(* result gives data again (name, operands, source trace), and the result  *)
(* equals i.                                                               *)
(***************************************************************************)
C5_RoundTrip ==
    (outcome.op = "deserialise" /\ outcome.data = serialise(slot)) =>
        /\ outcome.exc = "none"
        /\ serialise(outcome.obj) = outcome.data
        /\ Instruction_eq(outcome.obj, slot)
        /\ Instruction_eq(slot, outcome.obj)

\* an instruction with an operand and a source trace went through
C5_Witness ==
    /\ outcome.op = "deserialise"
    /\ outcome.data = serialise(slot)
    /\ Len(slot.operands) >= 1
    /\ Len(slot.source) >= 1
    /\ outcome.exc = "none"

(***************************************************************************)
(* C6: deserialising a name that is not an opcode of the instruction set   *)
(* fails with the language's UnknownOpcode error; a name resolves to an    *)
(* opcode constructor of the table and to nothing else found under it.     *)
(***************************************************************************)
C6_UnknownOpcode ==
    (outcome.op = "deserialise" /\ outcome.data[1] \notin OpcodeNames)
        => outcome.exc = "UnknownOpcode"

====
